---------------------------- MODULE Spec2Model ----------------------------
(***************************************************************************)
(* Python Paste Pro (src/extension.js): smart cut and smart paste for      *)
(* Python documents.  Text is a sequence of one-character strings, a       *)
(* document or a block is a sequence of such lines.  Positions are         *)
(* 0-based, as in the editor API; sequences are indexed from 1.            *)
(***************************************************************************)
EXTENDS Integers, Sequences, FiniteSets, TLC

VARIABLES
  doc,          \* editor.document: the lines of the document
  selection,    \* editor.selection: [sl, sc, el, ec], start <= end
  clipboard,    \* vscode.env.clipboard: text
  options,      \* editor.options: [tabSize, insertSpaces]
  languageId,   \* editor.document.languageId
  last,         \* the last command run, with the state it ran on
  pending,      \* the paste invocations suspended at clipboard.readText
  budget,       \* the command invocations still to come
  call,         \* arguments of the function under evaluation
  ret           \* its results

vars ==
  <<doc, selection, clipboard, options, languageId, last, pending, budget,
    call, ret>>

editorVars ==
  <<doc, selection, clipboard, options, languageId, last, pending, budget>>

(***************************************************************************)
(* Bounds of the model.                                                    *)
(***************************************************************************)
MaxLines == 3        \* lines of a pasted block

MaxIndent == 2       \* leading spaces of a pasted line

MaxBase == 1         \* base indent level of a paste

MaxDocLines == 3     \* lines of the document

(***************************************************************************)
(* Strings.                                                                *)
(***************************************************************************)
\* /\s/ : the whitespace characters of the model's alphabet
IsSpace(c) == c \in {" ", "\t", "\n", "\r"}

\* line.match(/^\s*/)[0].length
LeadingWs(s) ==
  CHOOSE n \in 0..Len(s) :
    /\ \A i \in 1..n : IsSpace(s[i])
    /\ n = Len(s) \/ ~IsSpace(s[n + 1])

\* line.match(/^ +/) : the number of leading space characters
LeadingSpaces(s) ==
  CHOOSE n \in 0..Len(s) :
    /\ \A i \in 1..n : s[i] = " "
    /\ n = Len(s) \/ s[n + 1] # " "

\* String.prototype.trimEnd
trimEnd(s) ==
  LET n == CHOOSE k \in 0..Len(s) :
             /\ \A i \in (k + 1)..Len(s) : IsSpace(s[i])
             /\ k = 0 \/ ~IsSpace(s[k])
  IN SubSeq(s, 1, n)

\* String.prototype.trim
trim(s) == LET t == trimEnd(s) IN SubSeq(t, LeadingWs(t) + 1, Len(t))

\* s.endsWith(c), c one character
endsWith(s, c) == Len(s) > 0 /\ s[Len(s)] = c

\* s.startsWith(c), c one character
startsWith(s, c) == Len(s) > 0 /\ s[1] = c

\* s.substring(i) and s.substring(0, i), i a 0-based offset
substringFrom(s, i) == SubSeq(s, i + 1, Len(s))

substringTo(s, i) == SubSeq(s, 1, i)

\* String.prototype.repeat
repeat(s, n) == [i \in 1..(n * Len(s)) |-> s[((i - 1) % Len(s)) + 1]]

\* whether pat occurs in s at 1-based index i
OccursAt(s, pat, i) ==
  /\ i + Len(pat) - 1 <= Len(s)
  /\ SubSeq(s, i, i + Len(pat) - 1) = pat

\* s.includes(pat)
includes(s, pat) == \E i \in 1..Len(s) : OccursAt(s, pat, i)

\* String.prototype.replaceAll: the non-overlapping occurrences, left to right
RECURSIVE replaceFrom(_, _, _, _)
replaceFrom(s, pat, rep, i) ==
  IF i > Len(s) THEN <<>>
  ELSE IF OccursAt(s, pat, i)
       THEN rep \o replaceFrom(s, pat, rep, i + Len(pat))
       ELSE <<s[i]>> \o replaceFrom(s, pat, rep, i + 1)

\* String.prototype.replace with a string pattern: the first occurrence only
replaceFirstOnly(s, pat, rep) ==
  LET hits == {i \in 1..Len(s) : OccursAt(s, pat, i)} IN
  IF hits = {} THEN s
  ELSE LET i == CHOOSE h \in hits : \A g \in hits : h <= g
       IN SubSeq(s, 1, i - 1) \o rep \o SubSeq(s, i + Len(pat), Len(s))

replaceAll(s, pat, rep) == replaceFrom(s, pat, rep, 1)

\* Array.prototype.join
RECURSIVE join(_, _)
join(ls, sep) ==
  IF ls = <<>> THEN <<>>
  ELSE IF Len(ls) = 1 THEN ls[1]
       ELSE ls[1] \o sep \o join(Tail(ls), sep)

(***************************************************************************)
(* getIndentUnit, getCodePart                                              *)
(***************************************************************************)
getIndentUnit(opts) ==
  IF opts.insertSpaces THEN repeat(<<" ">>, opts.tabSize) ELSE <<"\t">>

getCodePart(line) ==
  LET hashes == {i \in 1..Len(line) : line[i] = "#"}
      codePart == IF hashes # {}
                  THEN SubSeq(line, 1,
                         (CHOOSE i \in hashes : \A j \in hashes : i <= j) - 1)
                  ELSE line
  IN trimEnd(codePart)

\* /[:({[]$/.test(s)
EndsWithOpener(s) == Len(s) > 0 /\ s[Len(s)] \in {":", "(", "{", "["}

(***************************************************************************)
(* getGuessedIndentUnit                                                    *)
(***************************************************************************)
getGuessedIndentUnit(lines, indentUnit) ==
  LET linesWithIndent ==
        {i \in 2..Len(lines) : Len(lines[i]) > 0 /\ IsSpace(lines[i][1])}
      spaceCounts == {LeadingSpaces(lines[i]) : i \in linesWithIndent}
      minSpaceCount == CHOOSE m \in spaceCounts : \A k \in spaceCounts : m <= k
  IN IF linesWithIndent = {} THEN indentUnit
     ELSE IF minSpaceCount > 0 /\ minSpaceCount <= 4
          THEN repeat(<<" ">>, minSpaceCount)
          ELSE indentUnit

(***************************************************************************)
(* indentLines.  The loop of lines 62-101 runs over the 1-based index i;   *)
(* st carries indentedLines, currentIndentLevel, previousLineIndent        *)
(* (its length is all the code reads) and isPreviousLineIndentSet.         *)
(***************************************************************************)
\* firstLineLevel with a first line that counts as a header only when it
\* ends with a colon
firstLineLevelColonOnly(firstLine) ==
  IF ~startsWith(firstLine, "#") /\ endsWith(getCodePart(firstLine), ":")
  THEN 1 ELSE 0

\* lines 58-59: the running level after the first line
firstLineLevel(firstLine) ==
  IF ~startsWith(firstLine, "#") /\ EndsWithOpener(getCodePart(firstLine))
  THEN 1 ELSE 0

\* lostIndentOpens with the brackets counted as the first line counts them
lostIndentOpensOnBrackets(trimmedLine) ==
  ~startsWith(trimmedLine, "#") /\ EndsWithOpener(getCodePart(trimmedLine))

\* line 73: whether a later line of a block that lost its indentation
\* deepens the lines after it
lostIndentOpens(trimmedLine) ==
  ~startsWith(trimmedLine, "#") /\ endsWith(getCodePart(trimmedLine), ":")

\* seedPreviousIndent without the correction for an indented first line
seedPreviousIndentUncorrected(firstLine, currentIndent, indentUnit) ==
  currentIndent

\* seedPreviousIndent without the extra unit for a first line that ends
\* with an opening bracket
seedPreviousIndentWithoutOpenerUnit(firstLine, currentIndent, indentUnit) ==
  LET firstIndent == LeadingWs(firstLine) IN
  IF /\ firstIndent % Len(indentUnit) = 0
     /\ firstIndent > currentIndent
     /\ ~endsWith(getCodePart(firstLine), ":")
  THEN firstIndent
  ELSE currentIndent

\* lines 78-91: the reference indent for the first non-blank later line
seedPreviousIndent(firstLine, currentIndent, indentUnit) ==
  LET firstIndent == LeadingWs(firstLine) IN
  IF /\ firstIndent % Len(indentUnit) = 0
     /\ firstIndent > currentIndent
     /\ ~endsWith(getCodePart(firstLine), ":")
  THEN IF EndsWithOpener(getCodePart(firstLine))
       THEN firstIndent + Len(indentUnit)
       ELSE firstIndent
  ELSE currentIndent

\* renderLevel without the clamp
renderLevelUnclamped(newIndentLevel) == newIndentLevel

\* line 97: the level a line of preserved indentation is rendered at
renderLevel(newIndentLevel) == IF newIndentLevel > 0 THEN newIndentLevel ELSE 0

RECURSIVE indentLoop(_, _, _, _, _, _)
indentLoop(lines, baseIndentLevel, indentUnit, hasLostIndent, i, st) ==
  IF i > Len(lines) THEN st
  ELSE
    LET line == lines[i]
        trimmedLine == trim(line)
    IN
    IF trimmedLine = <<>>
    THEN indentLoop(lines, baseIndentLevel, indentUnit, hasLostIndent, i + 1,
           [st EXCEPT !.indentedLines = Append(@, <<>>)])
    ELSE IF hasLostIndent
    THEN
      LET newIndentLevel == baseIndentLevel + st.currentIndentLevel IN
      indentLoop(lines, baseIndentLevel, indentUnit, hasLostIndent, i + 1,
        [st EXCEPT
           !.indentedLines =
              Append(@, repeat(indentUnit, newIndentLevel) \o trimmedLine),
           !.currentIndentLevel =
              IF lostIndentOpens(trimmedLine) THEN @ + 1 ELSE @,
           !.counts = Append(@, [line |-> i, count |-> newIndentLevel])])
    ELSE
      LET currentIndent == LeadingWs(line)
          previousLineIndent ==
            IF ~st.isPreviousLineIndentSet
            THEN seedPreviousIndent(lines[1], currentIndent, indentUnit)
            ELSE st.previousLineIndent
          indentDiff == (currentIndent - previousLineIndent) \div Len(indentUnit)
          currentIndentLevel == st.currentIndentLevel + indentDiff
          newIndentLevel == baseIndentLevel + currentIndentLevel
      IN
      indentLoop(lines, baseIndentLevel, indentUnit, hasLostIndent, i + 1,
        [indentedLines |->
           Append(st.indentedLines,
             repeat(indentUnit, renderLevel(newIndentLevel)) \o trimmedLine),
         currentIndentLevel |-> currentIndentLevel,
         previousLineIndent |-> currentIndent,
         isPreviousLineIndentSet |-> TRUE,
         counts |->
           Append(st.counts,
                  [line |-> i, count |-> renderLevel(newIndentLevel)]),
         references |->
           Append(st.references,
                  [line |-> i, reference |-> previousLineIndent])])

\* indentLines with what it computes on the way: counts holds, for every
\* line that is indented, the count its indentation unit is repeated by;
\* references holds, for every line compared in preserved mode, the length
\* of previousLineIndent it is compared with
indentLinesRun(lines, baseIndentLevel, indentUnit, hasLostIndent) ==
  LET firstLine == lines[1] IN
  indentLoop(lines, baseIndentLevel, indentUnit, hasLostIndent, 2,
    [indentedLines |->
       <<repeat(indentUnit, baseIndentLevel) \o trim(firstLine)>>,
     currentIndentLevel |-> firstLineLevel(firstLine),
     previousLineIndent |-> 0,
     isPreviousLineIndentSet |-> FALSE,
     counts |-> <<[line |-> 1, count |-> baseIndentLevel]>>,
     references |-> <<>>])

indentLines(lines, baseIndentLevel, indentUnit, hasLostIndent) ==
  indentLinesRun(lines, baseIndentLevel, indentUnit,
                 hasLostIndent).indentedLines

(***************************************************************************)
(* calculateIndentedLines, with the values it computes on the way          *)
(***************************************************************************)
\* line 113
hasLostIndentOf(processedLines) ==
  \A i \in 1..Len(processedLines) :
    ~(Len(processedLines[i]) > 0 /\ IsSpace(processedLines[i][1]))

\* normalizeLines rewriting to the four-space default
normalizeLinesToDefault(processedLines, guessedIndentUnit, indentUnit) ==
  [i \in 1..Len(processedLines) |->
     replaceAll(processedLines[i], guessedIndentUnit, <<" ", " ", " ", " ">>)]

\* lines 115-117
normalizeLines(processedLines, guessedIndentUnit, indentUnit) ==
  [i \in 1..Len(processedLines) |->
     replaceAll(processedLines[i], guessedIndentUnit, indentUnit)]

\* the values calculateIndentedLines computes, and the lines it returns
calculateIndentedLinesRun(processedLines, baseIndentLevel, indentUnit) ==
  LET hasLostIndent == hasLostIndentOf(processedLines)
      guessedIndentUnit == getGuessedIndentUnit(processedLines, indentUnit)
      normalizedLines ==
        normalizeLines(processedLines, guessedIndentUnit, indentUnit)
      run == indentLinesRun(normalizedLines, baseIndentLevel, indentUnit,
                            hasLostIndent)
  IN [hasLostIndent |-> hasLostIndent,
      guessedIndentUnit |-> guessedIndentUnit,
      normalizedLines |-> normalizedLines,
      indentedLines |-> run.indentedLines,
      counts |-> run.counts,
      references |-> run.references]

calculateIndentedLines(processedLines, baseIndentLevel, indentUnit) ==
  calculateIndentedLinesRun(processedLines, baseIndentLevel,
                            indentUnit).indentedLines

(***************************************************************************)
(* preprocessClipboardText                                                 *)
(***************************************************************************)
\* .replace(new RegExp(`^(?:${lineEndingPattern})+`), '')
RECURSIVE stripLeadingBreaks(_, _)
stripLeadingBreaks(text, lineEnding) ==
  IF OccursAt(text, lineEnding, 1)
  THEN stripLeadingBreaks(substringFrom(text, Len(lineEnding)), lineEnding)
  ELSE text

Prompts == {<<">", ">", ">", " ">>, <<".", ".", ".", " ">>}

\* ^ under the m flag: the start of the text, or after a line terminator
AtLineStart(text, i) == i = 1 \/ text[i - 1] \in {"\n", "\r"}

\* whether /^(>>> |\.\.\. )/m matches at 1-based index i
PromptAt(text, i) ==
  AtLineStart(text, i) /\ \E p \in Prompts : OccursAt(text, p, i)

\* .replace(/^(>>> |\.\.\. )/gm, ''): every match is removed, the scan
\* resuming after it
RECURSIVE stripPromptsFrom(_, _)
stripPromptsFrom(text, i) ==
  IF i > Len(text) THEN <<>>
  ELSE IF PromptAt(text, i)
       THEN stripPromptsFrom(text, i + 4)
       ELSE <<text[i]>> \o stripPromptsFrom(text, i + 1)

\* stripPrompts without the g and m flags: a prompt at the start of the text
stripPromptsFirstOnly(text) ==
  IF \E p \in Prompts : OccursAt(text, p, 1)
  THEN substringFrom(text, 4)
  ELSE text

stripPrompts(text) == stripPromptsFrom(text, 1)

\* String.prototype.split with a non-empty separator
RECURSIVE split(_, _)
split(text, sep) ==
  IF ~includes(text, sep) THEN <<text>>
  ELSE LET i == CHOOSE k \in 1..Len(text) :
                  /\ OccursAt(text, sep, k)
                  /\ \A j \in 1..(k - 1) : ~OccursAt(text, sep, j)
       IN <<SubSeq(text, 1, i - 1)>>
            \o split(substringFrom(text, i - 1 + Len(sep)), sep)

\* lines 133 and 138: the line ending of the text
detectSeparator(clipboardText) ==
  IF includes(clipboardText, <<"\r", "\n">>) THEN <<"\r", "\n">> ELSE <<"\n">>

preprocessClipboardText(clipboardText) ==
  LET separator == detectSeparator(clipboardText)
      processedText ==
        stripPrompts(stripLeadingBreaks(trimEnd(clipboardText), separator))
  IN [lines |-> split(processedText, separator), separator |-> separator]

(***************************************************************************)
(* The editor: document, selection and edits.                              *)
(***************************************************************************)
\* document.lineAt(n).text
lineAt(d, n) == d[n + 1]

\* a selection that never counts as empty
isEmptyNever(sel) == FALSE

\* selection.isEmpty
isEmpty(sel) == sel.sl = sel.el /\ sel.sc = sel.ec

\* document.getText(range): the text of the range, a line feed between lines
getText(d, r) ==
  IF r.sl = r.el THEN SubSeq(lineAt(d, r.sl), r.sc + 1, r.ec)
  ELSE join(
         [k \in 1..(r.el - r.sl + 1) |->
            IF k = 1 THEN substringFrom(lineAt(d, r.sl), r.sc)
            ELSE IF k = r.el - r.sl + 1 THEN substringTo(lineAt(d, r.el), r.ec)
            ELSE lineAt(d, r.sl + k - 1)],
         <<"\n">>)

\* the lines the document holds for a text handed to an edit builder: the
\* host breaks the text at every line break, whichever kind it is
hostLines(text) ==
  split(replaceAll(replaceAll(text, <<"\r", "\n">>, <<"\n">>),
                   <<"\r">>, <<"\n">>),
        <<"\n">>)

\* one edit of an edit builder applied: the range r of d replaced by text
replaceRange(d, r, text) ==
  LET before == substringTo(lineAt(d, r.sl), r.sc)
      after == substringFrom(lineAt(d, r.el), r.ec)
      parts == hostLines(text)
      n == Len(parts)
  IN SubSeq(d, 1, r.sl)
       \o [k \in 1..n |->
             (IF k = 1 THEN before ELSE <<>>) \o parts[k]
               \o (IF k = n THEN after ELSE <<>>)]
       \o SubSeq(d, r.el + 2, Len(d))

\* editor.edit applying the edits of the builder as one batch: the ranges
\* refer to the document before the edit and are issued in ascending order,
\* so the last is applied first
RECURSIVE applyEdits(_, _)
applyEdits(d, edits) ==
  IF edits = <<>> THEN d
  ELSE applyEdits(
         replaceRange(d, edits[Len(edits)].range, edits[Len(edits)].text),
         SubSeq(edits, 1, Len(edits) - 1))

(***************************************************************************)
(* cut                                                                     *)
(***************************************************************************)
\* isBlockHeaderCut without the test for the colon
isBlockHeaderCutAnyText(sel, selectedText) ==
  sel.sl = sel.el \/ (sel.sl + 1 = sel.el /\ sel.ec = 0)

\* lines 281-290: whether the cut is one of a block header
isBlockHeaderCut(sel, selectedText) ==
  LET isSingleLine == sel.sl = sel.el
      isSingleLineWithNewline == sel.sl + 1 = sel.el /\ sel.ec = 0
  IN /\ isSingleLine \/ isSingleLineWithNewline
     /\ endsWith(getCodePart(selectedText), ":")

\* lines 300-307: endLineToDedent when the loop ends
RECURSIVE scanDedentEnd(_, _, _, _)
scanDedentEnd(d, endLineToDedent, baseIndentLevel, indentUnit) ==
  IF ~(endLineToDedent < Len(d)) THEN endLineToDedent
  ELSE
    LET currentLine == lineAt(d, endLineToDedent) IN
    IF trim(currentLine) = <<>>
    THEN scanDedentEnd(d, endLineToDedent + 1, baseIndentLevel, indentUnit)
    ELSE IF LeadingWs(currentLine) \div Len(indentUnit) <= baseIndentLevel
         THEN endLineToDedent + 1
         ELSE scanDedentEnd(d, endLineToDedent + 1, baseIndentLevel,
                            indentUnit)

\* dedentEdit removing one character instead of one unit
dedentEditOneCharacter(d, i, indentUnit) ==
  LET currentIndent == substringTo(lineAt(d, i), LeadingWs(lineAt(d, i)))
  IN [range |-> [sl |-> i, sc |-> 0, el |-> i, ec |-> Len(currentIndent)],
      text |-> substringFrom(currentIndent, 1)]

\* lines 315-317: the edit that dedents line i
dedentEdit(d, i, indentUnit) ==
  LET currentIndent == substringTo(lineAt(d, i), LeadingWs(lineAt(d, i)))
  IN [range |-> [sl |-> i, sc |-> 0, el |-> i, ec |-> Len(currentIndent)],
      text |-> substringFrom(currentIndent, Len(indentUnit))]

\* lines 310-320: the edits of the lines startLineToDedent..endLineToDedent-2
RECURSIVE dedentEdits(_, _, _, _)
dedentEdits(d, i, endLineToDedent, indentUnit) ==
  IF ~(i < endLineToDedent - 1) THEN <<>>
  ELSE (IF LeadingWs(lineAt(d, i)) >= Len(indentUnit)
        THEN <<dedentEdit(d, i, indentUnit)>>
        ELSE <<>>)
         \o dedentEdits(d, i + 1, endLineToDedent, indentUnit)

\* lines 277-320: the callback of cut: the text it writes to the clipboard
\* and the edits it issues
cutCallback(d, sel, indentUnit) ==
  LET selectedText == getText(d, sel)
      deletion == [range |-> sel, text |-> <<>>]
      totalLines == Len(d)
      baseIndentLevel == LeadingWs(lineAt(d, sel.sl)) \div Len(indentUnit)
      startLineToDedent == sel.sl + 1
      endLineToDedent ==
        scanDedentEnd(d, startLineToDedent, baseIndentLevel, indentUnit)
  IN [selectedText |-> selectedText,
      edits |->
        IF ~isBlockHeaderCut(sel, selectedText) THEN <<deletion>>
        ELSE IF startLineToDedent < totalLines
             THEN <<deletion>>
                    \o dedentEdits(d, startLineToDedent, endLineToDedent,
                                   indentUnit)
             ELSE <<deletion>>]

(***************************************************************************)
(* paste                                                                   *)
(***************************************************************************)
\* previousLineLevel where the previous line never opens a block
previousLineLevelIgnoringColon(d, startLine, indentUnit) ==
  LET prevLineNumber == startLine - 1 IN
  IF prevLineNumber < 0 THEN 0
  ELSE LET prevLine == lineAt(d, prevLineNumber)
       IN IF trim(prevLine) = <<>> THEN 0
          ELSE LeadingWs(prevLine) \div Len(indentUnit)

\* lines 169-177: the level the line before the start line gives
previousLineLevel(d, startLine, indentUnit) ==
  LET prevLineNumber == startLine - 1 IN
  IF prevLineNumber < 0 THEN 0
  ELSE LET prevLine == lineAt(d, prevLineNumber)
           prevIndentLevel == LeadingWs(prevLine) \div Len(indentUnit)
       IN IF trim(prevLine) = <<>> THEN 0
          ELSE IF endsWith(getCodePart(prevLine), ":")
               THEN prevIndentLevel + 1
               ELSE prevIndentLevel

getBaseIndentLevel(d, sel, indentUnit) ==
  LET startLine == sel.sl
      startCharacter == sel.sc
      currentIndent == LeadingWs(lineAt(d, startLine))
      unitLength == Len(indentUnit)
  IN IF isEmpty(sel) /\ currentIndent > 0 /\ currentIndent % unitLength = 0
     THEN currentIndent \div unitLength
     ELSE IF ~isEmpty(sel) /\ startCharacter = 0
     THEN currentIndent \div unitLength
     ELSE IF startCharacter % unitLength # 0
     THEN currentIndent \div unitLength
     ELSE IF startCharacter % unitLength = 0 /\ startCharacter # 0
     THEN startCharacter \div unitLength
     ELSE previousLineLevel(d, startLine, indentUnit)

\* /^\s*$/.test(s)
IsWhitespace(s) == \A i \in 1..Len(s) : IsSpace(s[i])

\* s.replace(/^\s+/, "")
stripLeadingWs(s) == SubSeq(s, LeadingWs(s) + 1, Len(s))

adjustInsertTextForMidLinePaste(d, sel, insertText) ==
  LET line == lineAt(d, sel.sl)
      textBefore == substringTo(line, sel.sc)
      textAfter == substringFrom(line, sel.sc)
      isSingleLine == sel.sl = sel.el
  IN IF /\ sel.sc > 0
        /\ isSingleLine
        /\ \/ ~IsWhitespace(textBefore)
           \/ sel.ec # Len(line) /\ ~IsWhitespace(textAfter)
     THEN stripLeadingWs(insertText)
     ELSE insertText

\* removeSurroundingWhitespace widening the deletion to the start of the
\* line whatever precedes the selection
removeSurroundingWhitespaceFromLineStart(d, sel) ==
  LET endText == lineAt(d, sel.el)
      newStartCharacter ==
        IF isEmpty(sel) \/ sel.sl # sel.el
           \/ sel.ec = Len(lineAt(d, sel.sl))
        THEN 0 ELSE sel.sc
      newEndCharacter ==
        IF IsWhitespace(substringFrom(endText, sel.ec))
        THEN Len(endText) ELSE sel.ec
  IN [rangeToDelete |-> [sl |-> sel.sl, sc |-> newStartCharacter,
                         el |-> sel.el, ec |-> newEndCharacter],
      position |-> [line |-> sel.sl, character |-> newStartCharacter]]

\* removeSurroundingWhitespace never widening the deletion to the end of
\* the line
removeSurroundingWhitespaceKeepingEnd(d, sel) ==
  LET startText == lineAt(d, sel.sl)
      newStartCharacter ==
        IF /\ IsWhitespace(substringTo(startText, sel.sc))
           /\ \/ isEmpty(sel)
              \/ sel.sl # sel.el
              \/ sel.ec = Len(startText)
        THEN 0 ELSE sel.sc
  IN [rangeToDelete |-> [sl |-> sel.sl, sc |-> newStartCharacter,
                         el |-> sel.el, ec |-> sel.ec],
      position |-> [line |-> sel.sl, character |-> newStartCharacter]]

\* the range removeSurroundingWhitespace deletes and the position it returns
removeSurroundingWhitespace(d, sel) ==
  LET startText == lineAt(d, sel.sl)
      isStartWhitespace == IsWhitespace(substringTo(startText, sel.sc))
      newStartCharacter ==
        IF /\ isStartWhitespace
           /\ \/ isEmpty(sel)
              \/ sel.sl # sel.el
              \/ sel.sl = sel.el /\ sel.ec = Len(startText)
        THEN 0 ELSE sel.sc
      endText == lineAt(d, sel.el)
      isEndWhitespace == IsWhitespace(substringFrom(endText, sel.ec))
      newEndCharacter == IF isEndWhitespace THEN Len(endText) ELSE sel.ec
  IN [rangeToDelete |-> [sl |-> sel.sl, sc |-> newStartCharacter,
                         el |-> sel.el, ec |-> newEndCharacter],
      position |-> [line |-> sel.sl, character |-> newStartCharacter]]

\* the callback of insertPastedText: the range it deletes, the position it
\* inserts at and the text it inserts
insertPastedText(d, sel, insertText, separator) ==
  LET isSingleLineWithNewline == sel.sl + 1 = sel.el /\ sel.ec = 0
      adjusted == adjustInsertTextForMidLinePaste(d, sel, insertText)
      adjustedInsertText ==
        IF isSingleLineWithNewline THEN adjusted \o separator ELSE adjusted
      removal == removeSurroundingWhitespace(d, sel)
  IN [rangeToDelete |-> removal.rangeToDelete,
      newPosition |-> removal.position,
      adjustedInsertText |-> adjustedInsertText]

\* paste from line 331 on, for a clipboard text that is not blank: the
\* values it computes and the edit it hands to the host
pasteRun(d, sel, clipboardText, opts) ==
  LET pre == preprocessClipboardText(clipboardText)
      indentUnit == getIndentUnit(opts)
      baseIndentLevel == getBaseIndentLevel(d, sel, indentUnit)
      run == calculateIndentedLinesRun(pre.lines, baseIndentLevel, indentUnit)
      insertText == join(run.indentedLines, pre.separator)
      plan == insertPastedText(d, sel, insertText, pre.separator)
  IN [separator |-> pre.separator,
      lines |-> pre.lines,
      baseIndentLevel |-> baseIndentLevel,
      hasLostIndent |-> run.hasLostIndent,
      counts |-> run.counts,
      indentedLines |-> run.indentedLines,
      insertText |-> insertText,
      rangeToDelete |-> plan.rangeToDelete,
      newPosition |-> plan.newPosition,
      adjustedInsertText |-> plan.adjustedInsertText]

\* the batch of insertPastedText applied: the deletion and the insertion at
\* its start make one replacement
pasteApplied(d, run) ==
  replaceRange(d, run.rangeToDelete, run.adjustedInsertText)

\* the cursor the host leaves after the batch: the end of the inserted text
cursorAfterPaste(run) ==
  LET parts == hostLines(run.adjustedInsertText)
      n == Len(parts)
      line == run.rangeToDelete.sl + n - 1
      character == IF n = 1 THEN run.rangeToDelete.sc + Len(parts[1])
                   ELSE Len(parts[n])
  IN [sl |-> line, sc |-> character, el |-> line, ec |-> character]

(***************************************************************************)
(* The indentation pipeline on its own: a block of preprocessed lines is   *)
(* drawn, then calculateIndentedLines runs on it.                          *)
(***************************************************************************)
IndentChoices == {repeat(<<" ">>, n) : n \in 0..MaxIndent}

Bodies == {<<"a">>, <<"a", ":">>, <<"a", "(">>, <<"#", ":">>}

BlankLines == {<<>>, <<" ">>}

LineChoices == {w \o b : w \in IndentChoices, b \in Bodies} \cup BlankLines

\* preprocessClipboardText trims the end of the text: the last line of a
\* block is never blank
Blocks ==
  {b \in UNION {[1..n -> LineChoices] : n \in 1..MaxLines} :
     trim(b[Len(b)]) # <<>>}

OptionChoices ==
  {[tabSize |-> 2, insertSpaces |-> TRUE],
   [tabSize |-> 4, insertSpaces |-> FALSE]}

NoCall == [fn |-> "none"]

NoCommand == [op |-> "none"]

InitIndent ==
  /\ doc = <<>>
  /\ selection = [sl |-> 0, sc |-> 0, el |-> 0, ec |-> 0]
  /\ clipboard = <<>>
  /\ options \in OptionChoices
  /\ languageId = "python"
  /\ last = NoCommand
  /\ pending = <<>>
  /\ budget = 0
  /\ call \in [fn : {"calculateIndentedLines"},
               processedLines : Blocks,
               baseIndentLevel : 0..MaxBase]
  /\ ret = NoCall

CalculateIndentedLines ==
  /\ call.fn = "calculateIndentedLines"
  /\ ret = NoCall
  /\ ret' = [fn |-> "calculateIndentedLines",
             run |-> calculateIndentedLinesRun(call.processedLines,
                       call.baseIndentLevel, getIndentUnit(options))]
  /\ UNCHANGED <<call, editorVars>>

NextIndent == CalculateIndentedLines

SpecIndent == InitIndent /\ [][NextIndent]_vars


(***************************************************************************)
(* Vocabulary of the claims about the indentation pipeline.                *)
(***************************************************************************)
IndentDone == ret # NoCall /\ ret.fn = "calculateIndentedLines"

\* the host's indentation unit
HostUnit == getIndentUnit(options)

\* the block indentLines receives and the block it returns
InLines == ret.run.normalizedLines

OutLines == ret.run.indentedLines

IsBlank(line) == trim(line) = <<>>

\* lines i < j are non-blank and only blank lines lie between them
Successive(ls, i, j) ==
  /\ i < j
  /\ ~IsBlank(ls[i])
  /\ ~IsBlank(ls[j])
  /\ \A k \in (i + 1)..(j - 1) : IsBlank(ls[k])

\* the indent level line i of the output is rendered at
RenderedLevel(i) == LeadingWs(OutLines[i]) \div Len(HostUnit)

\* a block header in the sense of the specification, section 4.2
IsBlockHeader(line) ==
  ~startsWith(trim(line), "#") /\ EndsWithOpener(getCodePart(line))

\* a line whose code part ends with a colon
IsColonHeader(line) ==
  ~startsWith(trim(line), "#") /\ endsWith(getCodePart(line), ":")

\* whether the leading whitespace of a line is exactly n indentation units
IndentedBy(line, unit, n) ==
  /\ LeadingWs(line) = n * Len(unit)
  /\ SubSeq(line, 1, LeadingWs(line)) = repeat(unit, n)

WholeUnits(line, unit) ==
  \E n \in 0..Len(line) : IndentedBy(line, unit, n)

(***************************************************************************)
(* C4.  Idempotence of re-indent at matching base level.                   *)
(***************************************************************************)
\* the block of the claim: the first line at exactly b units, every other
\* non-blank line at a whole number of units, blank lines empty
CorrectlyIndented(ls, unit, b) ==
  /\ ~IsBlank(ls[1])
  /\ IndentedBy(ls[1], unit, b)
  /\ \A i \in 2..Len(ls) :
       IF IsBlank(ls[i]) THEN ls[i] = <<>> ELSE WholeUnits(ls[i], unit)
  /\ \A i \in 1..Len(ls) : trimEnd(ls[i]) = ls[i]

\* each non-blank line that follows a block header is one unit deeper than
\* the header, each one that follows another line is no deeper than it
FollowsHeaders(ls, unit) ==
  \A i, j \in 1..Len(ls) :
    Successive(ls, i, j) =>
      IF IsBlockHeader(ls[i])
      THEN LeadingWs(ls[j]) = LeadingWs(ls[i]) + Len(unit)
      ELSE LeadingWs(ls[j]) <= LeadingWs(ls[i])

\* C4 as claimed: every correctly indented block (first line at b units,
\* the other lines at whole units, blank lines empty, no trailing
\* whitespace) comes back unchanged from a reconstruction at base level b.
C4_IdempotentAsClaimed ==
  (IndentDone
     /\ CorrectlyIndented(call.processedLines, HostUnit, call.baseIndentLevel))
    => OutLines = call.processedLines

\* C4 as amended: a correctly indented block comes back unchanged from a
\* reconstruction at its base level b when, in addition, its guessed source
\* unit is the host unit, each non-blank line after a block header is one
\* unit deeper than the header and each non-blank line after a line that is
\* no block header is no deeper than that line.
C4_IdempotentAtBaseLevel ==
  (IndentDone
     /\ CorrectlyIndented(call.processedLines, HostUnit, call.baseIndentLevel)
     /\ FollowsHeaders(call.processedLines, HostUnit)
     /\ ret.run.guessedIndentUnit = HostUnit)
    => OutLines = call.processedLines

\* a header, its body one unit deeper and a line back at the level of the
\* header, returned as they were
C4_Witness ==
  /\ IndentDone
  /\ Len(call.processedLines) = 3
  /\ CorrectlyIndented(call.processedLines, HostUnit, call.baseIndentLevel)
  /\ FollowsHeaders(call.processedLines, HostUnit)
  /\ ret.run.guessedIndentUnit = HostUnit
  /\ IsBlockHeader(call.processedLines[1])
  /\ LeadingWs(call.processedLines[2])
       = LeadingWs(call.processedLines[1]) + Len(HostUnit)
  /\ LeadingWs(call.processedLines[3]) = LeadingWs(call.processedLines[1])
  /\ OutLines = call.processedLines

(***************************************************************************)
(* C5.  Relative indentation in preserved mode.                            *)
(***************************************************************************)
\* C5: in preserved-indentation mode, two successive non-blank lines after
\* the first line whose indents are whole multiples of the unit are
\* rendered at levels that differ by the difference of their original
\* levels.
C5_RelativeIndentPreserved ==
  (IndentDone /\ ~ret.run.hasLostIndent) =>
    \A i, j \in 2..Len(InLines) :
      (/\ Successive(InLines, i, j)
       /\ LeadingWs(InLines[i]) % Len(HostUnit) = 0
       /\ LeadingWs(InLines[j]) % Len(HostUnit) = 0)
      => RenderedLevel(j) - RenderedLevel(i) =
           (LeadingWs(InLines[j]) - LeadingWs(InLines[i])) \div Len(HostUnit)

(***************************************************************************)
(* C6.  Blank-line invariance.                                             *)
(***************************************************************************)
\* C6: every blank input line, the first line included, is emitted as an
\* empty line, in both modes and at every base level.
C6_BlankLinesEmpty ==
  IndentDone =>
    \A i \in 1..Len(call.processedLines) :
      IsBlank(call.processedLines[i]) => OutLines[i] = <<>>

(***************************************************************************)
(* C7.  Block headers after the first line in lost-indentation mode.       *)
(***************************************************************************)
\* C7 as claimed: in lost-indentation mode the non-blank line that follows
\* a block header after the first line (code part ending in ':', '(', '{'
\* or '[') is rendered one level deeper than the header.
C7_OpenersDeepenAsClaimed ==
  (IndentDone /\ ret.run.hasLostIndent) =>
    \A i, j \in 2..Len(InLines) :
      (Successive(InLines, i, j) /\ IsBlockHeader(InLines[i]))
        => RenderedLevel(j) = RenderedLevel(i) + 1

\* C7 as amended: in lost-indentation mode the non-blank line that follows
\* a line after the first whose code part ends in ':' is rendered one level
\* deeper than it; a line after the first whose code part ends in '(', '{'
\* or '[' does not deepen the line that follows it.
C7_ColonsDeepen ==
  (IndentDone /\ ret.run.hasLostIndent) =>
    \A i, j \in 2..Len(InLines) :
      Successive(InLines, i, j) =>
        /\ IsColonHeader(InLines[i])
             => RenderedLevel(j) = RenderedLevel(i) + 1
        /\ (IsBlockHeader(InLines[i]) /\ ~IsColonHeader(InLines[i]))
             => RenderedLevel(j) = RenderedLevel(i)

\* a colon-terminated line after the first, followed by a non-blank line
C7_Witness ==
  /\ IndentDone
  /\ ret.run.hasLostIndent
  /\ Len(InLines) = 3
  /\ IsColonHeader(InLines[2])
  /\ ~IsBlank(InLines[3])
  /\ RenderedLevel(3) = RenderedLevel(2) + 1

(***************************************************************************)
(* C8.  Lost-indentation monotonicity.                                     *)
(***************************************************************************)
\* C8 as claimed: in lost-indentation mode the level of successive
\* non-blank lines never decreases: it is one deeper after a block header
\* and equal after any other line.
C8_MonotoneAsClaimed ==
  (IndentDone /\ ret.run.hasLostIndent) =>
    \A i, j \in 1..Len(InLines) :
      Successive(InLines, i, j) =>
        RenderedLevel(j) =
          RenderedLevel(i) + (IF IsBlockHeader(InLines[i]) THEN 1 ELSE 0)

\* the lines that deepen what follows them: the first line when it is a
\* block header, a later line when its code part ends with a colon
Deepens(ls, i) ==
  IF i = 1 THEN IsBlockHeader(ls[i]) ELSE IsColonHeader(ls[i])

\* C8 as amended: in lost-indentation mode the level of successive
\* non-blank lines never decreases: it is one deeper after the first line
\* when that is a block header and after a later line whose code part ends
\* in ':', and equal after any other line.
C8_Monotone ==
  (IndentDone /\ ret.run.hasLostIndent) =>
    \A i, j \in 1..Len(InLines) :
      Successive(InLines, i, j) =>
        /\ RenderedLevel(j) >= RenderedLevel(i)
        /\ RenderedLevel(j) =
             RenderedLevel(i) + (IF Deepens(InLines, i) THEN 1 ELSE 0)

\* a bracket-terminated first line followed by a non-blank line, and a
\* plain line after it
C8_Witness ==
  /\ IndentDone
  /\ ret.run.hasLostIndent
  /\ Len(InLines) = 3
  /\ IsBlockHeader(InLines[1])
  /\ ~IsColonHeader(InLines[1])
  /\ ~IsBlank(InLines[2])
  /\ ~IsBlank(InLines[3])
  /\ RenderedLevel(2) = RenderedLevel(1) + 1
  /\ RenderedLevel(3) = RenderedLevel(2)


(***************************************************************************)
(* C11.  Indentation normalization.                                        *)
(***************************************************************************)
\* the block calculateIndentedLines receives and the unit it guesses
RawLines == call.processedLines

GuessedUnit == ret.run.guessedIndentUnit

\* the guessed unit is a run of 1 to 4 spaces
GuessedSpaces ==
  \E k \in 1..4 : GuessedUnit = repeat(<<" ">>, k)

\* the first non-blank line after the first line, if there is one
FirstLater(ls, i) ==
  /\ i \in 2..Len(ls)
  /\ ~IsBlank(ls[i])
  /\ \A k \in 2..(i - 1) : IsBlank(ls[k])

\* C11 as claimed: when the guessed unit is a run of 1 to 4 spaces, a line
\* whose leading whitespace is n guessed units has n host units of leading
\* whitespace after normalization, and is rendered at the base level plus n.
C11_NormalizedAsClaimed ==
  (IndentDone /\ GuessedSpaces) =>
    \A i \in 1..Len(RawLines) : \A n \in 0..Len(RawLines[i]) :
      IndentedBy(RawLines[i], GuessedUnit, n) =>
        /\ IndentedBy(InLines[i], HostUnit, n)
        /\ ~IsBlank(RawLines[i]) =>
             RenderedLevel(i) = call.baseIndentLevel + n

\* the block starts with an unindented block header whose first non-blank
\* successor is one guessed unit deep, and every line is indented by whole
\* guessed units
HeaderLedBlock ==
  /\ LeadingWs(RawLines[1]) = 0
  /\ IsBlockHeader(RawLines[1])
  /\ \A i \in 1..Len(RawLines) : WholeUnits(RawLines[i], GuessedUnit)
  /\ \A i \in 2..Len(RawLines) :
       FirstLater(RawLines, i) => IndentedBy(RawLines[i], GuessedUnit, 1)

\* C11, amended: when the guessed unit is a run of 1 to 4 spaces, a line
\* whose leading whitespace is n guessed units has n host units of leading
\* whitespace after normalization; and when the block starts with an
\* unindented block header followed by a line one unit deep, a non-blank
\* line of depth n is rendered at the base level plus n.
C11_Normalized ==
  (IndentDone /\ GuessedSpaces) =>
    \A i \in 1..Len(RawLines) : \A n \in 0..Len(RawLines[i]) :
      IndentedBy(RawLines[i], GuessedUnit, n) =>
        /\ IndentedBy(InLines[i], HostUnit, n)
        /\ (HeaderLedBlock /\ ~IsBlank(RawLines[i])) =>
             RenderedLevel(i) = call.baseIndentLevel + n

\* a block indented by one space a level is pasted under another host
\* unit at base level 1: its line two levels deep is normalized to two
\* host units and rendered at level 3
C11_Witness ==
  /\ IndentDone
  /\ GuessedUnit = <<" ">>
  /\ GuessedUnit # HostUnit
  /\ call.baseIndentLevel = 1
  /\ HeaderLedBlock
  /\ Len(RawLines) = 3
  /\ IndentedBy(RawLines[3], GuessedUnit, 2)
  /\ IndentedBy(InLines[3], HostUnit, 2)
  /\ ~IsBlank(RawLines[3])
  /\ RenderedLevel(3) = 3

(***************************************************************************)
(* C12.  Unit round-trip.                                                  *)
(***************************************************************************)
\* C12: when the guessed unit is the host unit, normalization returns every
\* line of the block unchanged.
C12_UnitRoundTrip ==
  (IndentDone /\ GuessedUnit = HostUnit) => InLines = RawLines

\* a block indented by the host unit, which is guessed from its lines
C12_Witness ==
  /\ IndentDone
  /\ GuessedUnit = HostUnit
  /\ \E i \in 2..Len(RawLines) :
       ~IsBlank(RawLines[i]) /\ IndentedBy(RawLines[i], HostUnit, 1)
  /\ InLines = RawLines

(***************************************************************************)
(* C19.  The reference indent of preserved mode.                           *)
(***************************************************************************)
\* the reference the claim gives line i of the block ls
ClaimedReference(ls, i, unit) ==
  IF FirstLater(ls, i)
  THEN LET first == LeadingWs(ls[1])
           own == LeadingWs(ls[i])
       IN IF /\ first % Len(unit) = 0
             /\ first > own
             /\ ~endsWith(getCodePart(ls[1]), ":")
          THEN first + (IF EndsWithOpener(getCodePart(ls[1]))
                        THEN Len(unit) ELSE 0)
          ELSE own
  ELSE LeadingWs(ls[CHOOSE j \in 2..(i - 1) : Successive(ls, j, i)])

\* C19: in preserved mode every non-blank line after the first is compared
\* with a reference: for the first of them its own indent, or, when the
\* first line's indent is a multiple of the unit, longer than that line's
\* and the first line's code part does not end with a colon, the first
\* line's indent plus one unit if its code part ends with a block opener;
\* for every later one the indent of the non-blank line before it.
C19_ReferenceSeeding ==
  (IndentDone /\ ~ret.run.hasLostIndent) =>
    /\ {r.line : r \in {ret.run.references[k] :
                           k \in 1..Len(ret.run.references)}}
         = {i \in 2..Len(InLines) : ~IsBlank(InLines[i])}
    /\ \A k \in 1..Len(ret.run.references) :
         ret.run.references[k].reference
           = ClaimedReference(InLines, ret.run.references[k].line, HostUnit)

\* a first line more indented than the second and ending with an opening
\* bracket: the second line is compared with the first line's indent plus
\* one unit, the third with the second line's indent
C19_Witness ==
  /\ IndentDone
  /\ ~ret.run.hasLostIndent
  /\ Len(InLines) = 3
  /\ endsWith(getCodePart(InLines[1]), "(")
  /\ LeadingWs(InLines[1]) > LeadingWs(InLines[2])
  /\ ~IsBlank(InLines[2])
  /\ ~IsBlank(InLines[3])
  /\ Len(ret.run.references) = 2
  /\ ret.run.references[1].reference = LeadingWs(InLines[1]) + Len(HostUnit)
  /\ ret.run.references[2].reference = LeadingWs(InLines[2])


(***************************************************************************)
(* getGuessedIndentUnit on its own: lines indented by up to MaxSpaces      *)
(* spaces or by a tab, under three host units.                             *)
(***************************************************************************)
MaxSpaces == 5       \* leading spaces of a line whose unit is guessed

GuessLineChoices ==
  {repeat(<<" ">>, n) \o <<"a">> : n \in 0..MaxSpaces}
    \cup {<<"\t", "a">>, <<>>}

GuessOptionChoices ==
  OptionChoices \cup {[tabSize |-> 4, insertSpaces |-> TRUE]}

InitGuess ==
  /\ doc = <<>>
  /\ selection = [sl |-> 0, sc |-> 0, el |-> 0, ec |-> 0]
  /\ clipboard = <<>>
  /\ options \in GuessOptionChoices
  /\ languageId = "python"
  /\ last = NoCommand
  /\ pending = <<>>
  /\ budget = 0
  /\ call \in [fn : {"getGuessedIndentUnit"},
               lines : UNION {[1..n -> GuessLineChoices] : n \in 1..MaxLines}]
  /\ ret = NoCall

GetGuessedIndentUnit ==
  /\ call.fn = "getGuessedIndentUnit"
  /\ ret = NoCall
  /\ ret' = [fn |-> "getGuessedIndentUnit",
             unit |-> getGuessedIndentUnit(call.lines, getIndentUnit(options))]
  /\ UNCHANGED <<call, editorVars>>

NextGuess == GetGuessedIndentUnit

SpecGuess == InitGuess /\ [][NextGuess]_vars

(***************************************************************************)
(* C10.  The guessed source unit.                                          *)
(***************************************************************************)
GuessDone == ret # NoCall /\ ret.fn = "getGuessedIndentUnit"

\* the lines after the first that start with whitespace
IndentedLater(lines) ==
  {i \in 2..Len(lines) : Len(lines[i]) > 0 /\ IsSpace(lines[i][1])}

\* the smallest number of leading spaces among them
MinSpaces(lines) ==
  CHOOSE m \in {LeadingSpaces(lines[i]) : i \in IndentedLater(lines)} :
    \A i \in IndentedLater(lines) : m <= LeadingSpaces(lines[i])

\* C10: the guessed unit is the host unit when no line after the first
\* starts with whitespace; otherwise it is m spaces when the smallest number
\* m of leading spaces of those lines is in 1..4 and the 4-space default
\* when it is not, whatever the host unit.
C10_GuessedUnit ==
  GuessDone =>
    ret.unit =
      IF IndentedLater(call.lines) = {} THEN HostUnit
      ELSE IF MinSpaces(call.lines) \in 1..4
           THEN repeat(<<" ">>, MinSpaces(call.lines))
           ELSE <<" ", " ", " ", " ">>

(***************************************************************************)
(* preprocessClipboardText on its own: a clipboard text of up to MaxLines  *)
(* lines, with or without interpreter prompts, is drawn and preprocessed.  *)
(***************************************************************************)
ClipPrefixes ==
  {<<>>, <<">", ">", ">", " ">>, <<".", ".", ".", " ">>,
   <<" ", ">", ">", ">", " ">>}

ClipLineChoices == {p \o b : p \in ClipPrefixes, b \in {<<>>, <<"a">>}}

LineBreaks == {<<"\n">>, <<"\r", "\n">>}

\* the texts made of the lines ls, the same line break between them,
\* possibly after them and possibly before them
ClipTexts ==
  {lead \o join(ls, br) \o trail :
     ls \in UNION {[1..n -> ClipLineChoices] : n \in 1..MaxLines},
     br \in LineBreaks,
     lead \in {<<>>, <<"\n">>, <<"\r", "\n">>},
     trail \in {<<>>, <<"\n">>}}

InitPreprocess ==
  /\ doc = <<>>
  /\ selection = [sl |-> 0, sc |-> 0, el |-> 0, ec |-> 0]
  /\ clipboard = <<>>
  /\ options \in OptionChoices
  /\ languageId = "python"
  /\ last = NoCommand
  /\ pending = <<>>
  /\ budget = 0
  /\ call \in [fn : {"preprocessClipboardText"},
               clipboardText : {t \in ClipTexts : trim(t) # <<>>}]
  /\ ret = NoCall

PreprocessClipboardText ==
  /\ call.fn = "preprocessClipboardText"
  /\ ret = NoCall
  /\ LET r == preprocessClipboardText(call.clipboardText)
     IN ret' = [fn |-> "preprocessClipboardText",
                lines |-> r.lines,
                separator |-> r.separator]
  /\ UNCHANGED <<call, editorVars>>

NextPreprocess == PreprocessClipboardText

SpecPreprocess == InitPreprocess /\ [][NextPreprocess]_vars

(***************************************************************************)
(* C9.  Interpreter prompts.                                               *)
(***************************************************************************)
PreprocessDone == ret # NoCall /\ ret.fn = "preprocessClipboardText"

\* the text before the prompts are stripped, and the text that is split
UnstrippedText ==
  stripLeadingBreaks(trimEnd(call.clipboardText),
                     detectSeparator(call.clipboardText))

ProcessedText == join(ret.lines, ret.separator)

\* the lines of a text, a line ending at each line feed
LinesOf(text) == split(text, <<"\n">>)

StartsWithPrompt(line) == \E p \in Prompts : OccursAt(line, p, 1)

\* a line without the prompt it starts with
WithoutPrompt(line) ==
  IF StartsWithPrompt(line) THEN substringFrom(line, 4) ELSE line

\* C9 as claimed: the prompt is stripped from the first line of the text
\* only; the later lines keep theirs.
C9_FirstPromptOnlyAsClaimed ==
  PreprocessDone =>
    /\ Len(LinesOf(ProcessedText)) = Len(LinesOf(UnstrippedText))
    /\ \A k \in 1..Len(LinesOf(UnstrippedText)) :
         LinesOf(ProcessedText)[k] =
           IF k = 1 THEN WithoutPrompt(LinesOf(UnstrippedText)[k])
           ELSE LinesOf(UnstrippedText)[k]

\* C9 as amended: a leading '>>> ' or '... ' is stripped from the start of
\* every line of the clipboard text, once per line, in a single pass before
\* the text is split.
C9_EveryLinePromptStripped ==
  PreprocessDone =>
    /\ Len(LinesOf(ProcessedText)) = Len(LinesOf(UnstrippedText))
    /\ \A k \in 1..Len(LinesOf(UnstrippedText)) :
         LinesOf(ProcessedText)[k] = WithoutPrompt(LinesOf(UnstrippedText)[k])

\* a transcript of two prompted lines, both prompts stripped
C9_Witness ==
  /\ PreprocessDone
  /\ Len(LinesOf(UnstrippedText)) = 2
  /\ \A k \in 1..2 : StartsWithPrompt(LinesOf(UnstrippedText)[k])
  /\ ret.lines = <<<<"a">>, <<"a">>>>


(***************************************************************************)
(* The editor with a document and a selection, on which cut is invoked.    *)
(***************************************************************************)
DocLineChoices ==
  {w \o b : w \in IndentChoices, b \in {<<"a">>, <<"a", ":">>}}
    \cup BlankLines

Docs == UNION {[1..n -> DocLineChoices] : n \in 1..MaxDocLines}

\* the selections of d: empty, or from the start of a line or of its text
\* to the end of the line, to one character before it, to the start of the
\* next line or to the end of the next line
Selections(d) ==
  {sel \in [sl : 0..(Len(d) - 1), sc : 0..MaxIndent,
            el : 0..(Len(d) - 1), ec : 0..(MaxIndent + 2)] :
     /\ sel.sc \in {0, LeadingWs(lineAt(d, sel.sl))}
     /\ \/ sel.el = sel.sl
           /\ sel.ec \in {sel.sc, Len(lineAt(d, sel.sl)),
                          Len(lineAt(d, sel.sl)) - 1}
           /\ sel.ec >= sel.sc
        \/ sel.el = sel.sl + 1
           /\ sel.ec \in {0, Len(lineAt(d, sel.el))}}

Init ==
  /\ doc \in Docs
  /\ selection \in Selections(doc)
  /\ clipboard = <<>>
  /\ options \in OptionChoices
  /\ languageId = "python"
  /\ last = NoCommand
  /\ pending = <<>>
  /\ budget = 1
  /\ call = NoCall
  /\ ret = NoCall

\* cut, lines 272-322.  applied is what editor.edit resolves to: whether
\* the host applied the batch of edits.  The callback of editor.edit runs,
\* and writes the clipboard, before the host applies the batch.
Cut ==
  /\ budget > 0
  /\ budget' = budget - 1
  /\ IF languageId # "python" \/ isEmpty(selection)
     THEN /\ last' = [op |-> "cut", ran |-> FALSE, applied |-> FALSE,
                      doc |-> doc, selection |-> selection,
                      clipboard |-> clipboard, edits |-> <<>>]
          /\ UNCHANGED <<doc, selection, clipboard>>
     ELSE \E applied \in BOOLEAN :
            LET r == cutCallback(doc, selection, getIndentUnit(options)) IN
            /\ clipboard' = r.selectedText
            /\ doc' = IF applied THEN applyEdits(doc, r.edits) ELSE doc
            /\ selection' =
                 IF applied
                 THEN [selection EXCEPT !.el = selection.sl,
                                        !.ec = selection.sc]
                 ELSE selection
            /\ last' = [op |-> "cut", ran |-> TRUE, applied |-> applied,
                        doc |-> doc, selection |-> selection,
                        clipboard |-> clipboard, edits |-> r.edits,
                        selectedText |-> r.selectedText]
  /\ UNCHANGED <<options, languageId, pending, call, ret>>

\* paste up to its suspension, lines 328-330: outside a Python document
\* it returns, in one it asks the host for the clipboard text
PasteInvoke ==
  /\ budget > 0
  /\ budget' = budget - 1
  /\ IF languageId # "python"
     THEN /\ last' = [op |-> "paste", ran |-> FALSE, applied |-> FALSE,
                      doc |-> doc, selection |-> selection,
                      clipboard |-> clipboard, edits |-> <<>>,
                      clipboardText |-> <<>>]
          /\ UNCHANGED pending
     ELSE /\ pending' = Append(pending, [resolved |-> FALSE, text |-> <<>>])
          /\ UNCHANGED last
  /\ UNCHANGED <<doc, selection, clipboard, options, languageId, call, ret>>

\* the host serves the oldest request of clipboard.readText
ClipboardRead ==
  /\ \E k \in 1..Len(pending) :
       /\ ~pending[k].resolved
       /\ \A j \in 1..(k - 1) : pending[j].resolved
       /\ pending' = [pending EXCEPT
                        ![k] = [resolved |-> TRUE, text |-> clipboard]]
  /\ UNCHANGED <<doc, selection, clipboard, options, languageId, last,
                 budget, call, ret>>

\* paste from its resumption on, lines 331-337 and 254-266.  applied is
\* what editor.edit resolves to.
PasteResume ==
  /\ pending # <<>>
  /\ pending[1].resolved
  /\ pending' = Tail(pending)
  /\ LET clipboardText == pending[1].text IN
     IF trim(clipboardText) = <<>>
     THEN /\ last' = [op |-> "paste", ran |-> FALSE, applied |-> FALSE,
                      doc |-> doc, selection |-> selection,
                      clipboard |-> clipboard, edits |-> <<>>,
                      clipboardText |-> clipboardText]
          /\ UNCHANGED <<doc, selection>>
     ELSE \E applied \in BOOLEAN :
            LET run == pasteRun(doc, selection, clipboardText, options) IN
            /\ doc' = IF applied THEN pasteApplied(doc, run) ELSE doc
            /\ selection' =
                 IF applied THEN cursorAfterPaste(run) ELSE selection
            /\ last' = [op |-> "paste", ran |-> TRUE, applied |-> applied,
                        doc |-> doc, selection |-> selection,
                        clipboard |-> clipboard,
                        edits |-> <<[range |-> run.rangeToDelete,
                                     text |-> run.adjustedInsertText]>>,
                        clipboardText |-> clipboardText,
                        run |-> run]
  /\ UNCHANGED <<clipboard, options, languageId, budget, call, ret>>

Next == Cut

Spec == Init /\ [][Next]_vars


(***************************************************************************)
(* Vocabulary of the claims about cut.  A cut that ran is described by     *)
(* last: the document and the selection it ran on.                         *)
(***************************************************************************)
CutApplied == last.op = "cut" /\ last.ran /\ last.applied

\* a single-line selection, or one line and its line break, whose code
\* part ends with a colon
BlockHeaderSelection(d, sel) ==
  /\ sel.sl = sel.el \/ (sel.el = sel.sl + 1 /\ sel.ec = 0)
  /\ endsWith(getCodePart(getText(d, sel)), ":")

HeaderCutApplied ==
  CutApplied /\ BlockHeaderSelection(last.doc, last.selection)

PlainCutApplied ==
  CutApplied /\ ~BlockHeaderSelection(last.doc, last.selection)

\* the lines removed from the document by the deletion of the selection
RemovedLines == last.selection.el - last.selection.sl

\* the lines of the old document that follow the cut line and reach
\* beyond the selection
Following ==
  {i \in (last.selection.sl + 1)..(Len(last.doc) - 1) : i >= last.selection.el}

\* what line i of the old document holds outside the selection, and what
\* the document holds in its place after the cut
OldRest(i) ==
  IF i = last.selection.el
  THEN substringFrom(lineAt(last.doc, i), last.selection.ec)
  ELSE lineAt(last.doc, i)

NewRest(i) ==
  IF i = last.selection.el
  THEN substringFrom(lineAt(doc, last.selection.sl), last.selection.sc)
  ELSE lineAt(doc, i - RemovedLines)

IndentLevel(line) == LeadingWs(line) \div Len(HostUnit)

\* line i belongs to the block that depends on the cut line: no non-blank
\* line from the line after the cut line to line i is at the level of the
\* cut line or above it
InDependentBlock(i) ==
  \A k \in (last.selection.sl + 1)..i :
    \/ IsBlank(lineAt(last.doc, k))
    \/ IndentLevel(lineAt(last.doc, k))
         > IndentLevel(lineAt(last.doc, last.selection.sl))

(***************************************************************************)
(* C1.  The lines a block-header cut dedents.                              *)
(***************************************************************************)
\* C1: after a block-header cut the dedented lines are exactly the lines
\* of the dependent block (those with a unit of indentation to lose): the
\* lines after the cut line up to the first non-blank line at the level of
\* the cut line or above it, or through the last line of the document when
\* there is no such line.
C1_DependentBlockDedented ==
  HeaderCutApplied =>
    /\ Len(doc) = Len(last.doc) - RemovedLines
    /\ \A i \in Following :
         NewRest(i) # OldRest(i)
           <=> /\ InDependentBlock(i)
               /\ LeadingWs(lineAt(last.doc, i)) >= Len(HostUnit)

(***************************************************************************)
(* C2.  Dedent conservation on cut.                                        *)
(***************************************************************************)
\* C2: after a block-header cut every line that was rewritten has lost
\* exactly one unit's length of leading whitespace and nothing else, and
\* every line with less than a unit of leading whitespace is unmodified.
C2_DedentConservation ==
  HeaderCutApplied =>
    /\ Len(doc) = Len(last.doc) - RemovedLines
    /\ \A i \in Following :
         /\ NewRest(i) # OldRest(i) =>
              /\ LeadingWs(lineAt(last.doc, i)) >= Len(HostUnit)
              /\ NewRest(i) = substringFrom(OldRest(i), Len(HostUnit))
         /\ LeadingWs(lineAt(last.doc, i)) < Len(HostUnit) =>
              NewRest(i) = OldRest(i)

\* a header cut after which one line is dedented and a line with less
\* than one unit of indentation is as it was
C2_Witness ==
  /\ HeaderCutApplied
  /\ \E i \in Following : NewRest(i) # OldRest(i)
  /\ \E i \in Following :
       /\ LeadingWs(lineAt(last.doc, i)) \in 1..(Len(HostUnit) - 1)
       /\ ~IsBlank(lineAt(last.doc, i))
       /\ NewRest(i) = OldRest(i)

(***************************************************************************)
(* C3.  Cuts that are not block-header cuts.                               *)
(***************************************************************************)
\* C3: a cut that is no block-header cut only deletes the selection: the
\* lines before it and after it are unchanged, the start line keeps what
\* precedes the selection and receives what follows it, and the clipboard
\* holds the selected text.
C3_PlainCutOnlyDeletes ==
  PlainCutApplied =>
    LET old == last.doc
        sel == last.selection
    IN /\ Len(doc) = Len(old) - RemovedLines
       /\ \A i \in 0..(sel.sl - 1) : lineAt(doc, i) = lineAt(old, i)
       /\ lineAt(doc, sel.sl) =
            substringTo(lineAt(old, sel.sl), sel.sc)
              \o substringFrom(lineAt(old, sel.el), sel.ec)
       /\ \A i \in (sel.el + 1)..(Len(old) - 1) :
            lineAt(doc, i - RemovedLines) = lineAt(old, i)
       /\ LinesOf(clipboard) =
            [k \in 1..(RemovedLines + 1) |->
               SubSeq(lineAt(old, sel.sl + k - 1),
                 IF k = 1 THEN sel.sc + 1 ELSE 1,
                 IF k = RemovedLines + 1 THEN sel.ec
                 ELSE Len(lineAt(old, sel.sl + k - 1)))]

\* a cut of one line without a colon: the indented line after it is as
\* it was
C3_Witness ==
  /\ PlainCutApplied
  /\ RemovedLines = 0
  /\ last.selection.sl = 0
  /\ Len(last.doc) = 3
  /\ ~IsBlank(lineAt(last.doc, 1))
  /\ IndentLevel(lineAt(last.doc, 1)) > IndentLevel(lineAt(last.doc, 0))
  /\ lineAt(doc, 1) = lineAt(last.doc, 1)
  /\ clipboard = last.selectedText

(***************************************************************************)
(* The editor with a document, a selection and a clipboard text, on which  *)
(* paste is invoked once.  The base level looks at the start line and the  *)
(* line before it, the edit at the start line and the end line: documents  *)
(* of one and of two lines show every case.                                *)
(***************************************************************************)
PasteLineChoices ==
  {w \o b : w \in IndentChoices,
            b \in {<<"a">>, <<"a", ":">>, <<"a", " ">>}}
    \cup BlankLines

PasteDocs ==
  {<<l>> : l \in PasteLineChoices}
    \cup {<<k, l>> : k \in PasteLineChoices, l \in PasteLineChoices}

\* every selection of d: a start and an end, the start not after the end
AllSelections(d) ==
  {sel \in [sl : 0..(Len(d) - 1), sc : 0..(MaxIndent + 2),
            el : 0..(Len(d) - 1), ec : 0..(MaxIndent + 2)] :
     /\ sel.sc <= Len(lineAt(d, sel.sl))
     /\ sel.ec <= Len(lineAt(d, sel.el))
     /\ sel.sl < sel.el \/ (sel.sl = sel.el /\ sel.sc <= sel.ec)}

\* clipboard texts: one line; a block that lost its indentation; blocks
\* whose first line is the deepest; a block with "\r\n" line breaks; a
\* block with both kinds of line break; a block whose first line is blank;
\* a line with a space inside; a block with a line indented by one space
\* more than its neighbours; a blank text
PasteClipboards ==
  {<<"a">>,
   <<"a", ":", "\n", "a">>,
   <<" ", " ", "a", "\n", "a">>,
   <<" ", " ", "a", "\n", " ", "a", "\n", "a">>,
   <<"a", ":", "\r", "\n", " ", "a">>,
   <<"a", "\r", "\n", "a", "\n", "a">>,
   <<" ", "\n", "a">>,
   <<"a", ":", "\n", " ", "a", " ", "a">>,
   <<"a", ":", "\n", " ", " ", "a", "\n", " ", " ", " ", "a", "\n",
     " ", " ", "a">>,
   <<" ">>}

InitPaste ==
  /\ doc \in PasteDocs
  /\ selection \in AllSelections(doc)
  /\ clipboard \in PasteClipboards
  /\ options \in OptionChoices
  /\ languageId = "python"
  /\ last = NoCommand
  /\ pending = <<>>
  /\ budget = 1
  /\ call = NoCall
  /\ ret = NoCall

NextPaste == PasteInvoke \/ ClipboardRead \/ PasteResume

SpecPaste == InitPaste /\ [][NextPaste]_vars

(***************************************************************************)
(* Vocabulary of the claims about paste.  A paste that ran is described    *)
(* by last: the state it resumed on, the text it read and what it          *)
(* computed.                                                               *)
(***************************************************************************)
PasteRan == last.op = "paste" /\ last.ran

PasteApplied == PasteRan /\ last.applied

(***************************************************************************)
(* C13.  Line-separator fidelity.                                          *)
(***************************************************************************)
\* every line feed of text belongs to a line break of the kind sep
LineBreaksAre(text, sep) ==
  \A i \in 1..Len(text) :
    text[i] = "\n" =>
      (sep = <<"\r", "\n">>) = (i > 1 /\ text[i - 1] = "\r")

\* C13: the separator of a paste is "\r\n" if the clipboard text contains
\* "\r\n" and "\n" otherwise, and every line break of the inserted text is
\* that separator.
C13_SeparatorFidelity ==
  PasteRan =>
    /\ last.run.separator =
         (IF includes(last.clipboardText, <<"\r", "\n">>)
          THEN <<"\r", "\n">> ELSE <<"\n">>)
    /\ LineBreaksAre(last.run.adjustedInsertText, last.run.separator)

(***************************************************************************)
(* C14.  The range a paste deletes.                                        *)
(***************************************************************************)
IsHorizontalWs(s) == \A i \in 1..Len(s) : s[i] \in {" ", "\t"}

\* C14: the range a paste deletes starts on the selection's start line at
\* or before the selection's start and ends on its end line at or after
\* the selection's end, and the characters it covers outside the selection
\* are spaces and tabs.
C14_DeleteRangeSafe ==
  PasteRan =>
    LET r == last.run.rangeToDelete
        sel == last.selection
        d == last.doc
    IN /\ r.sl = sel.sl
       /\ r.el = sel.el
       /\ 0 <= r.sc /\ r.sc <= sel.sc
       /\ sel.ec <= r.ec /\ r.ec <= Len(lineAt(d, sel.el))
       /\ IsHorizontalWs(SubSeq(lineAt(d, sel.sl), r.sc + 1, sel.sc))
       /\ IsHorizontalWs(SubSeq(lineAt(d, sel.el), sel.ec + 1, r.ec))

\* an applied paste over a selection from inside the first line to inside
\* the second that deletes whitespace on both sides of the selection
C14_Witness ==
  /\ PasteApplied
  /\ last.selection.sl < last.selection.el
  /\ last.run.rangeToDelete.sc < last.selection.sc
  /\ last.run.rangeToDelete.ec > last.selection.ec
  /\ last.selection.ec > 0

(***************************************************************************)
(* C18.  The base level.                                                   *)
(***************************************************************************)
\* the cascade of the claim
ClaimedBaseLevel(d, sel, unit) ==
  LET lineIndent == LeadingWs(lineAt(d, sel.sl))
      unitLen == Len(unit)
      startChar == sel.sc
  IN IF isEmpty(sel) /\ lineIndent > 0 /\ lineIndent % unitLen = 0
     THEN lineIndent \div unitLen
     ELSE IF ~isEmpty(sel) /\ startChar = 0
     THEN lineIndent \div unitLen
     ELSE IF startChar % unitLen # 0
     THEN lineIndent \div unitLen
     ELSE IF startChar > 0
     THEN startChar \div unitLen
     ELSE IF sel.sl = 0 \/ IsBlank(lineAt(d, sel.sl - 1))
     THEN 0
     ELSE (LeadingWs(lineAt(d, sel.sl - 1)) \div unitLen)
            + (IF endsWith(getCodePart(lineAt(d, sel.sl - 1)), ":")
               THEN 1 ELSE 0)

\* C18: the base level of a paste is the one the cascade gives for the
\* document and the selection the paste runs on.
C18_BaseLevelCascade ==
  PasteRan =>
    last.run.baseIndentLevel
      = ClaimedBaseLevel(last.doc, last.selection, HostUnit)

\* a paste at the start of an unindented second line under an indented
\* line that ends with a colon: one level deeper than that line
C18_Witness ==
  /\ PasteRan
  /\ isEmpty(last.selection)
  /\ last.selection.sl = 1
  /\ last.selection.sc = 0
  /\ LeadingWs(lineAt(last.doc, 1)) = 0
  /\ endsWith(getCodePart(lineAt(last.doc, 0)), ":")
  /\ LeadingWs(lineAt(last.doc, 0)) = Len(HostUnit)
  /\ last.run.baseIndentLevel = 2

(***************************************************************************)
(* C20.  Rendered levels are not negative.                                 *)
(***************************************************************************)
\* C20: the count the indentation unit is repeated by is at least 0 for
\* the first line, where it is the base level, and for every later line.
C20_LevelsNonNegative ==
  PasteRan =>
    /\ last.run.baseIndentLevel >= 0
    /\ \A k \in 1..Len(last.run.counts) : last.run.counts[k].count >= 0
    /\ {last.run.counts[k].line : k \in 1..Len(last.run.counts)}
         = {1} \cup {i \in 2..Len(last.run.indentedLines) :
                       last.run.indentedLines[i] # <<>>}

\* a block whose second line is shallower than its first, pasted at base
\* level 0: the running level of the second line is -1, it is rendered
\* at level 0
C20_Witness ==
  /\ PasteRan
  /\ last.clipboardText = <<" ", " ", "a", "\n", "a">>
  /\ last.run.baseIndentLevel = 0
  /\ last.run.counts = <<[line |-> 1, count |-> 0], [line |-> 2, count |-> 0]>>
  /\ last.run.indentedLines = <<<<"a">>, <<"a">>>>

(***************************************************************************)
(* C21.  Whitespace collapse.                                              *)
(***************************************************************************)
\* the text of the start line before the selection and the text of the end
\* line after it
TextBefore(d, sel) == SubSeq(lineAt(d, sel.sl), 1, sel.sc)

TextAfter(d, sel) ==
  SubSeq(lineAt(d, sel.el), sel.ec + 1, Len(lineAt(d, sel.el)))

EmptySelection(sel) == sel.sl = sel.el /\ sel.sc = sel.ec

\* C21: the range a paste deletes starts at column 0 when the text before
\* the selection is whitespace and the selection is empty, spans several
\* lines or ends at the end of its single line, and at the selection's
\* start otherwise; it ends at the end of the line when the text after the
\* selection is whitespace, and at the selection's end otherwise; the text
\* is inserted at the start of the range.
C21_WhitespaceCollapse ==
  PasteRan =>
    LET sel == last.selection
        d == last.doc
        r == last.run.rangeToDelete
        collapses ==
          /\ IsHorizontalWs(TextBefore(d, sel))
          /\ \/ EmptySelection(sel)
             \/ sel.sl # sel.el
             \/ sel.ec = Len(lineAt(d, sel.sl))
    IN /\ r.sl = sel.sl
       /\ r.el = sel.el
       /\ r.sc = (IF collapses THEN 0 ELSE sel.sc)
       /\ r.ec = (IF IsHorizontalWs(TextAfter(d, sel))
                  THEN Len(lineAt(d, sel.el)) ELSE sel.ec)
       /\ last.run.newPosition = [line |-> r.sl, character |-> r.sc]

\* an applied paste over the text of an indented line, from the end of its
\* indentation to one character before trailing whitespace: the range
\* keeps its start and reaches the end of the line
C21_Witness ==
  /\ PasteApplied
  /\ last.selection.sl = last.selection.el
  /\ 0 < last.selection.sc
  /\ last.selection.sc < last.selection.ec
  /\ last.selection.ec < Len(lineAt(last.doc, last.selection.el))
  /\ IsHorizontalWs(TextBefore(last.doc, last.selection))
  /\ last.run.rangeToDelete.sc = last.selection.sc
  /\ last.run.rangeToDelete.ec = Len(lineAt(last.doc, last.selection.el))
  /\ last.run.newPosition.character = last.selection.sc

(***************************************************************************)
(* C22.  Mid-line paste.                                                   *)
(***************************************************************************)
\* a line without its leading spaces and tabs
WithoutIndent(line) ==
  LET n == CHOOSE k \in 0..Len(line) :
             /\ IsHorizontalWs(SubSeq(line, 1, k))
             /\ k = Len(line) \/ line[k + 1] \notin {" ", "\t"}
  IN SubSeq(line, n + 1, Len(line))

\* the insert text with the leading whitespace of its first line stripped
FirstLineStripped(run) ==
  join(<<WithoutIndent(run.indentedLines[1])>> \o Tail(run.indentedLines),
       run.separator)

\* C22: when the selection is on a single line, does not start at column
\* 0 and the text before it or the text after it is not whitespace, the
\* text a paste inserts is the insert text with the leading whitespace of
\* its first line stripped, the later lines as they are; in every other
\* case it is the insert text (with a separator appended when a line and
\* its line break are selected).
C22_MidLineStrip ==
  PasteRan =>
    LET sel == last.selection
        d == last.doc
        midLine ==
          /\ sel.sl = sel.el
          /\ sel.sc > 0
          /\ \/ ~IsHorizontalWs(TextBefore(d, sel))
             \/ ~IsHorizontalWs(TextAfter(d, sel))
    IN last.run.adjustedInsertText =
         (IF midLine THEN FirstLineStripped(last.run)
          ELSE last.run.insertText)
           \o (IF sel.sl + 1 = sel.el /\ sel.ec = 0
               THEN last.run.separator ELSE <<>>)

(***************************************************************************)
(* C23.  The first line of a paste, end to end.                            *)
(***************************************************************************)
\* C23: after an applied paste with an empty selection and only whitespace
\* before the cursor, the line the pasted text starts on begins with the
\* indentation unit repeated by the base level, followed by the trimmed
\* first line of the clipboard block and, when that line is not blank,
\* by no other leading whitespace.
C23_FirstLineIndentation ==
  (/\ PasteApplied
   /\ EmptySelection(last.selection)
   /\ IsHorizontalWs(TextBefore(last.doc, last.selection))) =>
    LET line == lineAt(doc, last.selection.sl)
        firstLine == trim(last.run.lines[1])
        expected == repeat(HostUnit, last.run.baseIndentLevel) \o firstLine
    IN /\ Len(line) >= Len(expected)
       /\ SubSeq(line, 1, Len(expected)) = expected
       /\ firstLine # <<>> =>
            LeadingWs(line) = last.run.baseIndentLevel * Len(HostUnit)

(***************************************************************************)
(* C24.  Content preservation.                                             *)
(***************************************************************************)
\* C24: the block a paste reconstructs has as many lines as the
\* preprocessed block, and each of its lines, without its leading
\* whitespace, is the trimmed line of the preprocessed block.
C24_ContentPreserved ==
  PasteRan =>
    /\ Len(last.run.indentedLines) = Len(last.run.lines)
    /\ \A i \in 1..Len(last.run.lines) :
         WithoutIndent(last.run.indentedLines[i]) = trim(last.run.lines[i])

(***************************************************************************)
(* C25.  Equal indents in preserved mode.                                  *)
(***************************************************************************)
\* C25: in preserved mode two non-blank lines after the first with the
\* same leading-whitespace length in the preprocessed block are rendered
\* at the same level.
C25_EqualIndentEqualLevel ==
  (PasteRan /\ ~last.run.hasLostIndent) =>
    \A i, j \in 2..Len(last.run.lines) :
      (/\ ~IsBlank(last.run.lines[i])
       /\ ~IsBlank(last.run.lines[j])
       /\ LeadingWs(last.run.lines[i]) = LeadingWs(last.run.lines[j])) =>
        LeadingWs(last.run.indentedLines[i]) \div Len(HostUnit)
          = LeadingWs(last.run.indentedLines[j]) \div Len(HostUnit)

(***************************************************************************)
(* The editor on which cut and paste are invoked MaxInvocations times,     *)
(* the invocations interleaved at the suspension of paste.                 *)
(***************************************************************************)
MaxInvocations == 2  \* invocations of the commands

CommandDocs == {<<<<"a", ":">>, <<" ", " ", "a">>>>, <<<<"a">>>>}

\* the cursor at the start of the document, or its first line selected
CommandSelections(d) ==
  {[sl |-> 0, sc |-> 0, el |-> 0, ec |-> 0],
   [sl |-> 0, sc |-> 0, el |-> 0, ec |-> Len(lineAt(d, 0))]}

CommandClipboards == {<<"b">>, <<" ">>}

InitCommands ==
  /\ doc \in CommandDocs
  /\ selection \in CommandSelections(doc)
  /\ clipboard \in CommandClipboards
  /\ options \in OptionChoices
  /\ languageId \in {"python", "plaintext"}
  /\ last = NoCommand
  /\ pending = <<>>
  /\ budget = MaxInvocations
  /\ call = NoCall
  /\ ret = NoCall

NextCommands == Cut \/ PasteInvoke \/ ClipboardRead \/ PasteResume

SpecCommands == InitCommands /\ [][NextCommands]_vars

(***************************************************************************)
(* C15.  Inapplicable states.                                              *)
(***************************************************************************)
\* the command that ran last met a state the claim calls inapplicable
Inapplicable ==
  \/ last.op \in {"cut", "paste"} /\ languageId # "python"
  \/ last.op = "paste" /\ trim(last.clipboardText) = <<>>
  \/ last.op = "cut" /\ last.selection.sl = last.selection.el
                      /\ last.selection.sc = last.selection.ec

\* C15: a cut or a paste outside a Python document, a paste of a clipboard
\* text that is blank and a cut of an empty selection issue no edit and
\* leave the document, the selection and the clipboard as they are.
C15_SilentNoOps ==
  Inapplicable =>
    /\ ~last.ran
    /\ last.edits = <<>>
    /\ doc = last.doc
    /\ selection = last.selection
    /\ clipboard = last.clipboard

\* a cut of an empty selection in a Python document, after which the
\* clipboard still holds its text
C15_Witness ==
  /\ last.op = "cut"
  /\ languageId = "python"
  /\ last.selection.sl = last.selection.el
  /\ last.selection.sc = last.selection.ec
  /\ ~last.ran
  /\ doc = last.doc
  /\ clipboard = last.clipboard
  /\ clipboard # <<>>

(***************************************************************************)
(* C16.  An edit the host does not apply.                                  *)
(***************************************************************************)
\* C16: when the host does not apply the edit of a cut or a paste, the
\* document, the selection and the clipboard are as they were when the
\* edit was built.
C16_NoPartialUpdate ==
  (last.op \in {"cut", "paste"} /\ last.ran /\ ~last.applied) =>
    /\ doc = last.doc
    /\ selection = last.selection
    /\ clipboard = last.clipboard

(***************************************************************************)
(* C17.  Interleaved invocations.                                          *)
(***************************************************************************)
\* the document a paste run on its own on d, sel and clip leaves
SerialPaste(d, sel, clip, opts, applied) ==
  IF trim(clip) = <<>> \/ ~applied THEN d
  ELSE pasteApplied(d, pasteRun(d, sel, clip, opts))

\* C17: the document a paste leaves is the document the same paste leaves
\* when it runs without interruption on the state its edit is built on:
\* the document, the selection and the clipboard of that moment.
C17_SerialEquivalent ==
  (last.op = "paste" /\ languageId = "python") =>
    doc = SerialPaste(last.doc, last.selection, last.clipboard, options,
                      last.applied \/ ~last.ran)

=============================================================================
